---- MODULE Spec2Model ----
(***************************************************************************)
(* Model of the midscene command line (packages/cli/src/index.ts): the     *)
(* start-up checks of the parsed argument list, the browser bootstrap and  *)
(* the sequential loop that dispatches every argument to the agent.        *)
(***************************************************************************)
EXTENDS Integers, Sequences, FiniteSets, TLC

(***************************************************************************)
(* Bounds of the model.                                                    *)
(***************************************************************************)
\* longest argument list drawn from the whole universe of arguments
MaxArgs == 3
\* longest list of arguments following a valid url argument
MaxSteps == 3

(***************************************************************************)
(* Argument values.  A value is a JavaScript string, number, boolean or    *)
(* undefined.  n is the payload: for a string the number of the string in  *)
(* a table whose entry 0 is the empty string, for a number the number      *)
(* itself, for a boolean 1 (true) or 0 (false).                            *)
(***************************************************************************)
Str(n) == [type |-> "string", n |-> n]
Num(n) == [type |-> "number", n |-> n]
Bool(n) == [type |-> "boolean", n |-> n]
Obj(n) == [type |-> "object", n |-> n]
Undef == [type |-> "undefined", n |-> 0]

\* typeof v
TypeOf(v) == v.type

\* JavaScript truthiness: "", 0, false and undefined are falsy
Truthy(v) ==
  CASE v.type = "string" -> v.n # 0
    [] v.type = "number" -> v.n # 0
    [] v.type = "boolean" -> v.n = 1
    [] v.type = "object" -> TRUE
    [] OTHER -> FALSE

preferenceArgs ==
  {"url", "headed", "viewport-width", "viewport-height", "viewport-scale",
   "user-agent"}

actionArgs == {"action", "assert", "query-output", "query", "sleep"}

Arg(name, value) == [name |-> name, value |-> value]

(***************************************************************************)
(* The argument lists the model runs the program on.                       *)
(***************************************************************************)
AnyArgs ==
  {Arg("url", Str(1)), Arg("url", Str(0)), Arg("url", Num(1)),
   Arg("url", Undef), Arg("headed", Bool(1)),
   Arg("viewport-width", Num(2)), Arg("viewport-width", Str(1)),
   Arg("viewport-height", Num(2)), Arg("viewport-scale", Num(2)),
   Arg("user-agent", Str(1)),
   Arg("action", Str(1)), Arg("query-output", Str(1)), Arg("query", Str(1)),
   Arg("sleep", Num(1)),
   Arg("help", Bool(1)), Arg("help", Undef), Arg("version", Bool(1)),
   Arg("foo", Str(1))}

StepArgs ==
  {Arg("action", Str(1)), Arg("action", Num(1)), Arg("action", Undef),
   Arg("assert", Str(2)), Arg("assert", Str(0)),
   Arg("query-output", Str(1)), Arg("query-output", Str(2)),
   Arg("query-output", Bool(1)),
   Arg("query", Str(1)), Arg("query", Undef),
   Arg("sleep", Num(1)), Arg("sleep", Num(0)), Arg("sleep", Undef),
   Arg("sleep", Str(0)), Arg("sleep", Str(1)),
   Arg("sleep", Bool(0)), Arg("sleep", Bool(1)),
   Arg("headed", Bool(1)), Arg("viewport-width", Num(2))}

SeqsUpTo(S, n) == UNION {[1..k -> S] : k \in 0..n}

ArgLists ==
  SeqsUpTo(AnyArgs, MaxArgs)
    \cup {<<Arg("url", Str(1))>> \o t : t \in SeqsUpTo(StepArgs, MaxSteps)}

\* what agent.aiQuery can resolve to: a string or a structured value
QueryValues == {Str(1), Obj(1)}

VARIABLES
  args,              \* the parsed argument list
  pc,                \* where the program is: "start", "shown" (help or
                     \* version printed, exit), "rejected" (start-up threw),
                     \* "boot", "crashed", "loop", "await", "close", "exit",
                     \* "exited"
  startupError,      \* message of the error thrown before the bootstrap
  viewportConfig,    \* width, height, deviceScaleFactor
  browser,           \* "none", "open" or "closed"
  closes,            \* number of browser.close() calls
  index,             \* position in args, from 0
  outputPath,        \* the path given by the last query-output
  actionStarted,     \* an action argument has been seen
  argName, argValue, \* name and value of the argument being handled
  errorWhenRunning,  \* message of the error caught by the loop
  calls,             \* agent calls made, in order
  pending,           \* positions whose awaited call or timer is in flight
  sleeps,            \* timers started, in order
  writes,            \* files written, in order
  out,               \* what updateSpin and printStep were given, in order
  exitCode           \* the codes given to process.exit

vars ==
  <<args, pc, startupError, viewportConfig, browser, closes, index,
    outputPath, actionStarted, argName, argValue, errorWhenRunning, calls,
    pending, sleeps, writes, out, exitCode>>

\* an error variable that was never assigned
NoError == "undefined"

(***************************************************************************)
(* Start-up: help, version, the check of the names, the preference lookups *)
(* and the url assertions.                                                 *)
(***************************************************************************)
Matches(a, name) == {i \in 1..Len(a) : a[i].name = name}

\* findOnlyItemInArgs throws when the name occurs more than once
FindThrows(a, name) == Cardinality(Matches(a, name)) > 1

\* findOnlyItemInArgs: the value of the only item of that name
FindOnlyItemInArgs(a, name) ==
  IF Matches(a, name) = {} THEN Undef
  ELSE a[CHOOSE i \in Matches(a, name) : TRUE].value

DuplicateMessage(name) == "Multiple values found for " \o name

\* variant: the names are not checked
RecognizedAnyName(name) == TRUE

\* the name is one of preferenceArgs or actionArgs
Recognized(name) == name \in preferenceArgs \/ name \in actionArgs

UnknownPositions(a) == {i \in 1..Len(a) : ~Recognized(a[i].name)}

Min(S) == CHOOSE x \in S : \A y \in S : x <= y

UnknownMessage(a) == "Unknown argument: " \o a[Min(UnknownPositions(a))].name

\* variant: viewport-scale is not looked up
LookupsWithoutScale == <<"headed", "viewport-width", "viewport-height">>

\* the preference names looked up before url, in the order of the lookups
LookupsBeforeUrl ==
  <<"headed", "viewport-width", "viewport-height", "viewport-scale">>

DuplicatedLookups(a) ==
  {k \in 1..Len(LookupsBeforeUrl) : FindThrows(a, LookupsBeforeUrl[k])}

\* variant: only the first assertion on url
UrlErrorNoTypeCheck(url) ==
  IF ~Truthy(url) THEN "URL is required" ELSE NoError

\* the two assertions on url: the message of the one that fails, or NoError
UrlError(url) ==
  IF ~Truthy(url) THEN "URL is required"
  ELSE IF TypeOf(url) # "string" THEN "URL must be a string"
  ELSE NoError

\* configured: the outcome is reached after viewportConfig was computed
Exits(code) ==
  [kind |-> "exit", code |-> code, message |-> NoError, configured |-> FALSE]
Throws(message) ==
  [kind |-> "throw", code |-> 1, message |-> message, configured |-> FALSE]
ThrowsLate(message) ==
  [kind |-> "throw", code |-> 1, message |-> message, configured |-> TRUE]
Proceeds ==
  [kind |-> "launch", code |-> 0, message |-> NoError, configured |-> TRUE]

\* what the top-level code before the bootstrap does with the arguments
StartupOutcome(a) ==
  IF FindThrows(a, "help") THEN Throws(DuplicateMessage("help"))
  ELSE IF Truthy(FindOnlyItemInArgs(a, "help")) THEN Exits(0)
  ELSE IF FindThrows(a, "version") THEN Throws(DuplicateMessage("version"))
  ELSE IF Truthy(FindOnlyItemInArgs(a, "version")) THEN Exits(0)
  ELSE IF UnknownPositions(a) # {} THEN Throws(UnknownMessage(a))
  ELSE IF DuplicatedLookups(a) # {}
    THEN Throws(DuplicateMessage(LookupsBeforeUrl[Min(DuplicatedLookups(a))]))
  ELSE IF FindThrows(a, "url") THEN ThrowsLate(DuplicateMessage("url"))
  ELSE IF UrlError(FindOnlyItemInArgs(a, "url")) # NoError
    THEN ThrowsLate(UrlError(FindOnlyItemInArgs(a, "url")))
  ELSE IF FindThrows(a, "user-agent")
    THEN ThrowsLate(DuplicateMessage("user-agent"))
  ELSE Proceeds

\* variant: the type of the value is not looked at
NumberOrAnyValue(v, default) ==
  IF TypeOf(v) # "undefined" THEN v.n ELSE default

\* typeof v === 'number' ? v : default
NumberOr(v, default) == IF TypeOf(v) = "number" THEN v.n ELSE default

ViewportOf(a) ==
  [width |-> NumberOr(FindOnlyItemInArgs(a, "viewport-width"), 1280),
   height |-> NumberOr(FindOnlyItemInArgs(a, "viewport-height"), 1280),
   deviceScaleFactor |-> NumberOr(FindOnlyItemInArgs(a, "viewport-scale"), 1)]

(***************************************************************************)
(* What is shown.  Strings that are not given by the user or the agent     *)
(* have their own entries in the table of strings: 100 + k is the decimal  *)
(* text of the number k, 200 is "false", 201 is "true", 300 is             *)
(* "undefined", 400 is defaultUA, 500 is the JSON text of viewportConfig   *)
(* and 600 is "puppeteer".                                                 *)
(***************************************************************************)
\* String(v)
JsString(v) ==
  CASE v.type = "string" -> v
    [] v.type = "number" -> Str(100 + v.n)
    [] v.type = "boolean" -> Str(200 + v.n)
    [] OTHER -> Str(300)

defaultUA == Str(400)
ViewportText == Str(500)
PuppeteerText == Str(600)

\* stepString: the name and the text of the parameter; form tells how the
\* parameter is rendered: as JSON, followed by ms, as it is, or not at all
stepString(name, param) ==
  [name |-> name,
   form |-> IF TypeOf(param) = "object" THEN "json"
            ELSE IF name = "sleep" THEN "ms"
            ELSE IF Truthy(param) THEN "raw"
            ELSE "empty",
   value |-> param]

\* updateSpin(stepString(name, param))
updateSpin(name, param) ==
  [kind |-> "spin", step |-> stepString(name, param), message |-> ""]

\* printStep(name, param)
printStep(name, param) ==
  [kind |-> "print", step |-> stepString(name, param), message |-> ""]

\* printStep('Error', e.message)
printError(message) ==
  [kind |-> "print", step |-> stepString("Error", Str(1)),
   message |-> message]

\* variant: the failure is shown without the message of the error
FailureNotesWithoutMessage(name, value, message) ==
  <<printStep(name \o " - Failed", JsString(value))>>

\* the two lines of the catch block
FailureNotes(name, value, message) ==
  <<printStep(name \o " - Failed", JsString(value)), printError(message)>>

\* lines 142-147: url, user agent, viewport and headed are shown
StartupNotes(a) ==
  LET preferredUA == FindOnlyItemInArgs(a, "user-agent")
      ua == IF TypeOf(preferredUA) = "string" THEN preferredUA ELSE defaultUA
      shown == <<printStep("url", FindOnlyItemInArgs(a, "url")),
                 printStep("user-agent", ua),
                 printStep("viewport", ViewportText)>>
  IN IF Truthy(FindOnlyItemInArgs(a, "headed"))
     THEN Append(shown, printStep("headed", Str(201)))
     ELSE shown

\* what the bootstrap shows, in order
BootstrapNotes(a) ==
  <<updateSpin("launch", PuppeteerText),
    updateSpin("launch", FindOnlyItemInArgs(a, "url")),
    updateSpin("waitForNetworkIdle", FindOnlyItemInArgs(a, "url")),
    printStep("launched", FindOnlyItemInArgs(a, "url"))>>

DefaultViewport == [width |-> 1280, height |-> 1280, deviceScaleFactor |-> 1]

Init ==
  /\ args \in ArgLists
  /\ pc = "start"
  /\ startupError = NoError
  /\ viewportConfig = DefaultViewport
  /\ browser = "none"
  /\ closes = 0
  /\ index = 0
  /\ outputPath = Undef
  /\ actionStarted = FALSE
  /\ argName = "undefined"
  /\ argValue = Undef
  /\ errorWhenRunning = NoError
  /\ calls = <<>>
  /\ pending = {}
  /\ sleeps = <<>>
  /\ writes = <<>>
  /\ out = <<>>
  /\ exitCode = {}

loopVars ==
  <<index, outputPath, actionStarted, argName, argValue, errorWhenRunning,
    calls, pending, sleeps, writes>>

\* lines 63-147: everything the program does before the bootstrap
Startup ==
  /\ pc = "start"
  /\ LET o == StartupOutcome(args) IN
       /\ pc' = CASE o.kind = "exit" -> "shown"
                   [] o.kind = "throw" -> "rejected"
                   [] OTHER -> "boot"
       /\ startupError' = o.message
       /\ exitCode' = IF o.kind = "exit" THEN {o.code} ELSE exitCode
       /\ viewportConfig' =
            IF o.configured THEN ViewportOf(args) ELSE viewportConfig
       /\ out' = IF o.kind = "launch" THEN out \o StartupNotes(args) ELSE out
  /\ UNCHANGED <<args, browser, closes>>
  /\ UNCHANGED loopVars

\* lines 151-175: launch, page set-up, navigation, the loop's variables
Bootstrap ==
  /\ pc = "boot"
  /\ pc' = "loop"
  /\ browser' = "open"
  /\ index' = 0
  /\ outputPath' = Undef
  /\ actionStarted' = FALSE
  /\ out' = out \o BootstrapNotes(args)
  /\ UNCHANGED <<args, startupError, viewportConfig, closes, argName,
                 argValue, errorWhenRunning, calls, pending, sleeps, writes,
                 exitCode>>

\* a rejection of launch (no browser) or of a later step of the bootstrap
\* (browser open): the async function ends there, after shown of its notes
BootstrapFails ==
  /\ pc = "boot"
  /\ pc' = "crashed"
  /\ \E shown \in 1..3 :
       /\ out' = out \o SubSeq(BootstrapNotes(args), 1, shown)
       /\ browser' \in IF shown = 1 THEN {"none", "open"} ELSE {"open"}
  /\ UNCHANGED <<args, startupError, viewportConfig, closes, exitCode>>
  /\ UNCHANGED loopVars

(***************************************************************************)
(* The loop over the arguments.                                            *)
(***************************************************************************)
\* variant: sleep is not counted among the action arguments
ValidActionArgNoSleep(name) == name \in actionArgs \ {"sleep"}

\* Object.values(actionArgs).includes(argName)
ValidActionArg(name) == name \in actionArgs

\* variant: the order of the arguments is not checked
OrderNeverChecked(started, valid) == TRUE

\* variant: the assertion is made whether or not action started
OrderAlwaysAsserted(started, valid) == valid

\* once action started, a preference argument is refused
OrderAllowed(started, valid) == started => valid

OrderMessage(name) ==
  "You cannot put --" \o name
    \o " here. Please change the order of the arguments."

\* variant: the value is not asserted to be a string
ParamErrorNoTypeCheck(name, param) ==
  IF ~Truthy(param) THEN "missing " \o name ELSE NoError

\* the two assertions on the value of action, assert, query-output, query
ParamError(name, param) ==
  IF ~Truthy(param) THEN "missing " \o name
  ELSE IF TypeOf(param) # "string" THEN name \o " must be a string"
  ELSE NoError

\* variant: a missing value of sleep is not skipped
SleepCaseNoBreak(param) ==
  IF TypeOf(param) # "number" THEN "throw" ELSE "timer"

\* variant: the value of sleep is not asserted to be a number
SleepCaseNoAssert(param) == IF ~Truthy(param) THEN "break" ELSE "timer"

\* what case sleep does with its value
SleepCase(param) ==
  IF ~Truthy(param) THEN "break"
  ELSE IF TypeOf(param) # "number" THEN "throw"
  ELSE "timer"

\* what writeFileSync is given for a query's value
FileContent(value) ==
  IF TypeOf(value) = "object" THEN [json |-> TRUE, value |-> value]
  ELSE [json |-> FALSE, value |-> value]

AgentMessage == "agent failure"
WriteMessage == "write failure"

\* variant: a catch inside the loop: the error is recorded and the loop goes on
CatchInsideLoop(message) ==
  /\ pc' = "loop"
  /\ index' = index + 1
  /\ errorWhenRunning' = message
  /\ pending' = pending \ {index}

\* the catch block: the error is recorded and the loop is left
Catch(message) ==
  /\ pc' = "close"
  /\ index' = index
  /\ errorWhenRunning' = message
  /\ pending' = pending \ {index}

\* variant: break without index += 1
ContinueWithoutAdvance ==
  /\ pc' = "loop"
  /\ index' = index
  /\ errorWhenRunning' = errorWhenRunning
  /\ pending' = pending \ {index}

\* break, then index += 1
Continue ==
  /\ pc' = "loop"
  /\ index' = index + 1
  /\ errorWhenRunning' = errorWhenRunning
  /\ pending' = pending \ {index}

\* variant: the call or the timer is started and not awaited
NotAwaited ==
  /\ pc' = "loop"
  /\ index' = index + 1
  /\ errorWhenRunning' = errorWhenRunning
  /\ pending' = pending \cup {index}

\* await of an agent call or of the timer
Await ==
  /\ pc' = "await"
  /\ index' = index
  /\ errorWhenRunning' = errorWhenRunning
  /\ pending' = pending \cup {index}

\* variant: every agent argument is given to agent.aiAction
CallAlwaysAction(name, param) ==
  [name |-> "action", param |-> param, index |-> index]

\* the agent call made for the argument at index
Call(name, param) == [name |-> name, param |-> param, index |-> index]

\* variant: no progress note
SpunWithoutProgress(name, param) == out

\* the notes so far and the progress note of the argument taken
Spun(name, param) == Append(out, updateSpin(name, JsString(param)))

\* the switch on argName, up to the first await
Switch(name, param) ==
  CASE name \in {"action", "assert", "query"} ->
         IF ParamError(name, param) # NoError
         THEN /\ Catch(ParamError(name, param))
              /\ out' = Spun(name, param)
                          \o FailureNotes(name, param, ParamError(name, param))
              /\ UNCHANGED <<outputPath, calls, sleeps, writes>>
         ELSE /\ calls' = Append(calls, Call(name, param))
              /\ Await
              /\ out' = Spun(name, param)
              /\ UNCHANGED <<outputPath, sleeps, writes>>
    [] name = "query-output" ->
         IF ParamError(name, param) # NoError
         THEN /\ Catch(ParamError(name, param))
              /\ out' = Spun(name, param)
                          \o FailureNotes(name, param, ParamError(name, param))
              /\ UNCHANGED <<outputPath, calls, sleeps, writes>>
         ELSE /\ outputPath' = param
              /\ Continue
              /\ out' = Append(Spun(name, param),
                               printStep(name, JsString(param)))
              /\ UNCHANGED <<calls, sleeps, writes>>
    [] name = "sleep" ->
         CASE SleepCase(param) = "break" ->
                /\ Continue
                /\ out' = Spun(name, param)
                /\ UNCHANGED <<outputPath, calls, sleeps, writes>>
           [] SleepCase(param) = "throw" ->
                /\ Catch("sleep must be a number")
                /\ out' = Spun(name, param)
                            \o FailureNotes(name, param,
                                            "sleep must be a number")
                /\ UNCHANGED <<outputPath, calls, sleeps, writes>>
           [] OTHER ->
                /\ sleeps' = Append(sleeps, [ms |-> param.n, index |-> index])
                /\ Await
                /\ out' = Spun(name, param)
                /\ UNCHANGED <<outputPath, calls, writes>>
    [] OTHER ->
         /\ Continue
         /\ out' = Spun(name, param)
         /\ UNCHANGED <<outputPath, calls, sleeps, writes>>

startVars == <<args, startupError, viewportConfig, browser, closes, exitCode>>

\* lines 176-243 up to the first await: one argument is taken and dispatched
Dispatch ==
  /\ pc = "loop"
  /\ index <= Len(args) - 1
  /\ LET arg == args[index + 1] IN
       /\ argName' = arg.name
       /\ argValue' = arg.value
       /\ IF ~OrderAllowed(actionStarted, ValidActionArg(arg.name))
          THEN /\ Catch(OrderMessage(arg.name))
               /\ out' = Spun(arg.name, arg.value)
                           \o FailureNotes(arg.name, arg.value,
                                           OrderMessage(arg.name))
               /\ UNCHANGED <<actionStarted, outputPath, calls, sleeps,
                              writes>>
          ELSE /\ actionStarted' =
                    (actionStarted \/ ValidActionArg(arg.name))
               /\ Switch(arg.name, arg.value)
  /\ UNCHANGED startVars

\* agent.aiAction or agent.aiAssert resolves
AgentResolves ==
  /\ pc = "await"
  /\ argName \in {"action", "assert"}
  /\ Continue
  /\ out' = Append(out, printStep(argName, JsString(argValue)))
  /\ UNCHANGED <<actionStarted, outputPath, argName, argValue, calls,
                 sleeps, writes>>
  /\ UNCHANGED startVars

\* the notes of a query that resolved with value
Answered(value) ==
  out \o <<printStep(argName, JsString(argValue)), printStep("answer", value)>>

\* agent.aiQuery resolves with a value; the value is written to outputPath
QueryResolves ==
  /\ pc = "await"
  /\ argName = "query"
  /\ \E value \in QueryValues, written \in BOOLEAN :
       IF Truthy(outputPath)
       THEN IF written
            THEN /\ writes' = Append(writes,
                                 [path |-> outputPath,
                                  content |-> FileContent(value),
                                  index |-> index])
                 /\ outputPath' = outputPath
                 /\ Continue
                 /\ out' = Answered(value)
            ELSE /\ Catch(WriteMessage)
                 /\ out' = Answered(value)
                             \o FailureNotes(argName, argValue, WriteMessage)
                 /\ UNCHANGED <<outputPath, writes>>
       ELSE /\ Continue
            /\ out' = Answered(value)
            /\ UNCHANGED <<outputPath, writes>>
  /\ UNCHANGED <<actionStarted, argName, argValue, calls, sleeps>>
  /\ UNCHANGED startVars

\* the awaited agent call rejects
AgentRejects ==
  /\ pc = "await"
  /\ argName \in {"action", "assert", "query"}
  /\ Catch(AgentMessage)
  /\ out' = out \o FailureNotes(argName, argValue, AgentMessage)
  /\ UNCHANGED <<actionStarted, outputPath, argName, argValue, calls,
                 sleeps, writes>>
  /\ UNCHANGED startVars

\* the timer of a sleep fires
SleepEnds ==
  /\ pc = "await"
  /\ argName = "sleep"
  /\ Continue
  /\ out' = Append(out, printStep(argName, JsString(argValue)))
  /\ UNCHANGED <<actionStarted, outputPath, argName, argValue, calls,
                 sleeps, writes>>
  /\ UNCHANGED startVars

\* variant: the process is left without closing the browser
LoopEndsWithoutClose ==
  /\ pc = "loop"
  /\ index > Len(args) - 1
  /\ pc' = "exit"
  /\ UNCHANGED <<args, startupError, viewportConfig, browser, closes,
                 exitCode>>
  /\ UNCHANGED <<loopVars, out>>

\* the while condition is false: the try block ends without an error
LoopEnds ==
  /\ pc = "loop"
  /\ index > Len(args) - 1
  /\ pc' = "close"
  /\ UNCHANGED <<args, startupError, viewportConfig, browser, closes,
                 exitCode>>
  /\ UNCHANGED <<loopVars, out>>

\* await browser.close()
BrowserClose ==
  /\ pc = "close"
  /\ pc' = "exit"
  /\ browser' = "closed"
  /\ closes' = closes + 1
  /\ UNCHANGED <<args, startupError, viewportConfig, exitCode>>
  /\ UNCHANGED <<loopVars, out>>

\* variant: the error is not looked at
ExitCodeAlwaysZero(error) == 0

\* errorWhenRunning ? 1 : 0
ExitCodeOf(error) == IF error # NoError THEN 1 ELSE 0

\* process.exit(errorWhenRunning ? 1 : 0)
ProcessExit ==
  /\ pc = "exit"
  /\ pc' = "exited"
  /\ exitCode' = exitCode \cup {ExitCodeOf(errorWhenRunning)}
  /\ UNCHANGED <<args, startupError, viewportConfig, browser, closes>>
  /\ UNCHANGED <<loopVars, out>>

Next ==
  \/ Startup
  \/ Bootstrap
  \/ BootstrapFails
  \/ Dispatch
  \/ AgentResolves
  \/ QueryResolves
  \/ AgentRejects
  \/ SleepEnds
  \/ LoopEnds
  \/ BrowserClose
  \/ ProcessExit

Spec == Init /\ [][Next]_vars

\* the arguments of the loop's cases, each valid and invalid
LoopStepArgs ==
  {Arg("action", Str(1)), Arg("action", Undef), Arg("assert", Str(2)),
   Arg("query-output", Str(1)), Arg("query-output", Bool(1)),
   Arg("query", Str(1)), Arg("query", Undef),
   Arg("sleep", Num(1)), Arg("sleep", Num(0)), Arg("sleep", Undef),
   Arg("sleep", Str(1)), Arg("headed", Bool(1))}

\* the lists that enter the loop
LoopArgLists ==
  {<<Arg("url", Str(1))>> \o t : t \in SeqsUpTo(LoopStepArgs, MaxSteps)}

FairInit == Init /\ args \in LoopArgLists

\* every synchronous step is taken, and every awaited call, timer, bootstrap
\* step and browser.close() settles
FairSpec == FairInit /\ [][Next]_vars /\ WF_vars(Next)

TypeOK ==
  /\ pc \in {"start", "shown", "rejected", "exited", "boot", "crashed", "loop",
             "await", "close", "exit"}
  /\ browser \in {"none", "open", "closed"}
  /\ index \in 0..Len(args)
  /\ exitCode \subseteq {0, 1}

(***************************************************************************)
(* Vocabulary of the properties.                                           *)
(***************************************************************************)
\* the loop has been entered
Started == pc \in {"loop", "await", "close", "exit", "exited"}

\* the loop has been left
Ended == pc \in {"close", "exit", "exited"}

Failed == Ended /\ errorWhenRunning # NoError

Completed == Ended /\ errorWhenRunning = NoError

\* nothing was launched, called, suspended, written or dispatched
NoSideEffect ==
  /\ browser = "none"
  /\ closes = 0
  /\ calls = <<>>
  /\ sleeps = <<>>
  /\ writes = <<>>
  /\ pending = {}
  /\ index = 0
  /\ argName = "undefined"
  /\ outputPath = Undef
  /\ ~actionStarted

\* the start-up threw: the run is rejected as a failure
Rejected ==
  /\ pc = "rejected"
  /\ startupError # NoError
  /\ exitCode = {}

\* the usage or the version was printed and the process left with code 0
ShownAndLeft ==
  /\ pc = "shown"
  /\ startupError = NoError
  /\ exitCode = {0}

\* positions of the names outside the six preference and five action names
ForeignPositions(a) ==
  {i \in 1..Len(a) :
     a[i].name \notin
       {"url", "headed", "viewport-width", "viewport-height",
        "viewport-scale", "user-agent", "action", "assert", "query-output",
        "query", "sleep"}}

Count(a, name) == Cardinality({i \in 1..Len(a) : a[i].name = name})

TruthyOnce(a, name) ==
  /\ Count(a, name) = 1
  /\ \A i \in 1..Len(a) : a[i].name = name => Truthy(a[i].value)

\* the arguments ask for the usage, or else for the version
AsksHelpOrVersion(a) ==
  \/ TruthyOnce(a, "help")
  \/ /\ Count(a, "help") <= 1
     /\ ~TruthyOnce(a, "help")
     /\ TruthyOnce(a, "version")

\* positions, from 0, of a preference argument after an action argument
OutOfOrderPositions(a) ==
  {p \in 0..(Len(a) - 1) :
     /\ a[p + 1].name \in preferenceArgs
     /\ \E q \in 0..(p - 1) : a[q + 1].name \in actionArgs}

IsOrderError(e) == \E n \in preferenceArgs : e = OrderMessage(n)

IsAgentName(n) == n \in {"action", "assert", "query"}

\* the agent calls of the first k arguments, in the order of the list
RECURSIVE Projection(_, _)
Projection(a, k) ==
  IF k = 0 THEN <<>>
  ELSE IF IsAgentName(a[k].name)
    THEN Append(Projection(a, k - 1),
                [name |-> a[k].name, param |-> a[k].value, index |-> k - 1])
    ELSE Projection(a, k - 1)

\* the last query-output among the first k arguments
RECURSIVE LastOutput(_, _)
LastOutput(a, k) ==
  IF k = 0 THEN Undef
  ELSE IF a[k].name = "query-output" THEN a[k].value
  ELSE LastOutput(a, k - 1)

IsPrefix(s, t) == Len(s) <= Len(t) /\ SubSeq(t, 1, Len(s)) = s

(***************************************************************************)
(* C1: when a preference argument follows an action argument, the loop     *)
(* never goes past the first such position p; it fails with the            *)
(* out-of-order message exactly when it fails at p, with every call of the *)
(* arguments before p made and no effect of an argument at or after p.     *)
(***************************************************************************)
C1_OutOfOrderAtFirstPosition ==
  (Started /\ OutOfOrderPositions(args) # {}) =>
    LET p == Min(OutOfOrderPositions(args)) IN
      /\ index <= p
      /\ ~Completed
      /\ \A k \in 1..Len(calls) : calls[k].index < p
      /\ \A k \in 1..Len(sleeps) : sleeps[k].index < p
      /\ \A k \in 1..Len(writes) : writes[k].index < p
      /\ IsOrderError(errorWhenRunning) <=> (Failed /\ index = p)
      /\ (Failed /\ index = p) =>
           /\ errorWhenRunning = OrderMessage(args[p + 1].name)
           /\ argName = args[p + 1].name
           /\ calls = Projection(args, p)
           /\ outputPath = LastOutput(args, p)
           /\ actionStarted

C1_Witness ==
  /\ Failed
  /\ Cardinality(OutOfOrderPositions(args)) = 2
  /\ index = Min(OutOfOrderPositions(args))
  /\ IsOrderError(errorWhenRunning)
  /\ calls # <<>>

(***************************************************************************)
(* C2: a query that has written its result leaves no output path behind.   *)
(***************************************************************************)
C2_PathClearedByQuery ==
  (/\ pc = "loop"
   /\ writes # <<>>
   /\ writes[Len(writes)].index = index - 1) => outputPath = Undef

(***************************************************************************)
(* C3: once an error is caught the loop is left for good: the error, the   *)
(* position, the calls, the timers, the files and the output path stay as  *)
(* they are, and the calls and files made before are never undone.         *)
(***************************************************************************)
C3_FailureIsTerminal ==
  [][/\ IsPrefix(calls, calls')
     /\ IsPrefix(writes, writes')
     /\ IsPrefix(sleeps, sleeps')
     /\ (errorWhenRunning = NoError /\ errorWhenRunning' # NoError) =>
          /\ pc' = "close"
          /\ index' = index
          /\ calls' = calls /\ writes' = writes /\ sleeps' = sleeps
          /\ outputPath' = outputPath
     /\ errorWhenRunning # NoError =>
          /\ errorWhenRunning' = errorWhenRunning
          /\ pc \in {"close", "exit", "exited"}
          /\ pc' \in {"close", "exit", "exited"}
          /\ index' = index
          /\ calls' = calls /\ writes' = writes /\ sleeps' = sleeps
          /\ outputPath' = outputPath
          /\ argName' = argName /\ argValue' = argValue
          /\ pending' = {}]_vars

C3_Witness ==
  /\ pc = "exited"
  /\ errorWhenRunning = AgentMessage
  /\ Len(calls) = 2
  /\ index < Len(args) - 1
  /\ IsAgentName(args[index + 2].name)

(***************************************************************************)
(* C4: at most one call or timer is in flight, it belongs to the argument  *)
(* at index, and no argument is taken while one is in flight.              *)
(***************************************************************************)
C4_OneDispatchInFlight ==
  /\ Cardinality(pending) <= 1
  /\ pending # {} <=> pc = "await"
  /\ pending \subseteq {index}
  /\ \A k \in 1..Len(calls) : calls[k].index <= index
  /\ \A k \in 1..Len(sleeps) : sleeps[k].index <= index

C4_Witness ==
  /\ pc = "await"
  /\ pending = {index}
  /\ Len(calls) = 2
  /\ sleeps # <<>>

(***************************************************************************)
(* C5: the agent calls made are the action, assert and query arguments of  *)
(* the arguments dispatched so far, in list order, one call each with the  *)
(* argument's string; an argument is dispatched when its call was made     *)
(* (every argument before index, and the one at index when its call is in  *)
(* flight or failed); on a completed run these are all the arguments.      *)
(***************************************************************************)
Dispatched ==
  IF pc = "await" \/ errorWhenRunning \in {AgentMessage, WriteMessage}
  THEN index + 1
  ELSE index

C5_CallsInListOrder ==
  Started =>
    /\ calls = Projection(args, Dispatched)
    /\ \A k \in 1..Len(calls) :
         TypeOf(calls[k].param) = "string" /\ Truthy(calls[k].param)
    /\ Completed => calls = Projection(args, Len(args))

C5_Witness ==
  /\ Completed
  /\ Len(calls) = 3
  /\ calls[1].name = "assert"
  /\ calls[2].name = "query"
  /\ calls[3].name = "action"

(***************************************************************************)
(* C6: the code given to process.exit after the loop is 0 exactly when the *)
(* loop ended with every argument handled and no error, and 1 exactly when *)
(* an error was caught.                                                    *)
(***************************************************************************)
C6_ExitCode ==
  /\ Started /\ pc # "exited" => exitCode = {}
  /\ pc = "exited" =>
       /\ exitCode \in {{0}, {1}}
       /\ exitCode = {0} <=> (errorWhenRunning = NoError /\ index = Len(args))
       /\ exitCode = {1} <=> errorWhenRunning # NoError

C6_Witness ==
  /\ pc = "exited"
  /\ exitCode = {1}
  /\ calls # <<>>
  /\ index < Len(args)

(***************************************************************************)
(* C7 as claimed: a list with a name outside the recognized set is         *)
(* rejected as a failure with no side effect.                              *)
(***************************************************************************)
C7_UnknownNameRejected ==
  (pc # "start" /\ ForeignPositions(args) # {}) => (Rejected /\ NoSideEffect)

(***************************************************************************)
(* C7 amended: a list with a name outside the recognized set has no side   *)
(* effect; it is rejected as a failure unless it asks for the usage or the *)
(* version, and then the process leaves with code 0.                       *)
(***************************************************************************)
C7_UnknownNameNoSideEffect ==
  (pc # "start" /\ ForeignPositions(args) # {}) =>
    /\ NoSideEffect
    /\ IF AsksHelpOrVersion(args) THEN ShownAndLeft ELSE Rejected

C7_Witness ==
  /\ Rejected
  /\ startupError = "Unknown argument: foo"
  /\ Count(args, "url") = 1
  /\ Count(args, "action") = 1

(***************************************************************************)
(* C8 as claimed: a list with a preference name twice is rejected.         *)
(***************************************************************************)
DuplicatedPreference(a) == \E n \in preferenceArgs : Count(a, n) >= 2

WellFormed(a) ==
  /\ ForeignPositions(a) = {}
  /\ ~DuplicatedPreference(a)
  /\ \E i \in 1..Len(a) :
       a[i].name = "url" /\ TypeOf(a[i].value) = "string" /\ Truthy(a[i].value)

C8_DuplicateRejected ==
  (pc # "start" /\ DuplicatedPreference(args)) => (Rejected /\ NoSideEffect)

(***************************************************************************)
(* C8 amended: a list with a preference name twice never gets the browser  *)
(* launched nor an argument dispatched; it is rejected unless it asks for  *)
(* the usage or the version; a list of recognized names with one good url  *)
(* and no preference name twice is not rejected, however often its action  *)
(* names occur.                                                            *)
(***************************************************************************)
C8_DuplicateNeverLaunched ==
  pc # "start" =>
    /\ DuplicatedPreference(args) =>
         /\ NoSideEffect
         /\ IF AsksHelpOrVersion(args) THEN ShownAndLeft ELSE Rejected
    /\ WellFormed(args) => pc \notin {"rejected", "shown"}

C8_Witness ==
  /\ Rejected
  /\ startupError = DuplicateMessage("user-agent")
  /\ Count(args, "url") = 1

(***************************************************************************)
(* C9 as claimed: a list without url, or with a url whose value is not a   *)
(* string, is rejected; one url with a string value is not rejected        *)
(* because of url.                                                         *)
(***************************************************************************)
UrlMessages == {"URL is required", "URL must be a string"}

NonStringUrl(a) ==
  \E i \in 1..Len(a) : a[i].name = "url" /\ TypeOf(a[i].value) # "string"

OneStringUrl(a) ==
  /\ Count(a, "url") = 1
  /\ \A i \in 1..Len(a) : a[i].name = "url" => TypeOf(a[i].value) = "string"

C9_UrlRequired ==
  pc # "start" =>
    /\ (Count(args, "url") = 0 \/ NonStringUrl(args)) =>
         (Rejected /\ NoSideEffect)
    /\ OneStringUrl(args) => startupError \notin UrlMessages

(***************************************************************************)
(* C9 amended: a list without url, or with a url whose value is not a      *)
(* string or is the empty string, never gets the browser launched; it is   *)
(* rejected unless it asks for the usage or the version; one url with a    *)
(* non-empty string value is not rejected because of url.                  *)
(***************************************************************************)
EmptyUrl(a) ==
  \E i \in 1..Len(a) : a[i].name = "url" /\ a[i].value = Str(0)

C9_UrlRequiredNonEmpty ==
  pc # "start" =>
    /\ (Count(args, "url") = 0 \/ NonStringUrl(args) \/ EmptyUrl(args)) =>
         /\ NoSideEffect
         /\ IF AsksHelpOrVersion(args) THEN ShownAndLeft ELSE Rejected
    /\ (OneStringUrl(args) /\ ~EmptyUrl(args)) =>
         startupError \notin UrlMessages

C9_Witness ==
  /\ Rejected
  /\ startupError = "URL must be a string"
  /\ Count(args, "action") = 1

(***************************************************************************)
(* C10 as claimed: a sleep whose value is a string or a boolean fails with *)
(* the type error at that argument, with no timer started.                 *)
(***************************************************************************)
SleepTypeFailure ==
  /\ Failed
  /\ errorWhenRunning = "sleep must be a number"
  /\ args[index + 1] = Arg(argName, argValue)
  /\ \A k \in 1..Len(sleeps) : sleeps[k].index < index
  /\ pending = {}

C10_NonNumericSleepFails ==
  (Started /\ argName = "sleep" /\ TypeOf(argValue) \in {"string", "boolean"})
    => SleepTypeFailure

(***************************************************************************)
(* C10 amended: a sleep whose value is a non-empty string or true fails    *)
(* with the type error at that argument, with no timer started and no      *)
(* later argument taken; the empty string and false are handled like an    *)
(* absent value: no timer, no error.                                       *)
(***************************************************************************)
C10_TruthyNonNumericSleepFails ==
  (Started /\ argName = "sleep" /\ TypeOf(argValue) \in {"string", "boolean"})
    => IF Truthy(argValue)
       THEN SleepTypeFailure
       ELSE /\ errorWhenRunning = NoError
            /\ \A k \in 1..Len(sleeps) : sleeps[k].index < index
            /\ args[index] = Arg(argName, argValue)

C10_Witness ==
  /\ pc = "exited"
  /\ errorWhenRunning = "sleep must be a number"
  /\ argValue = Str(1)
  /\ index < Len(args) - 1
  /\ calls # <<>>

(***************************************************************************)
(* C11 as claimed: a sleep without a value starts no timer, raises no      *)
(* error, leaves the output path alone and lets the loop go on; a sleep    *)
(* with a number starts one timer and then lets the loop go on.            *)
(***************************************************************************)
\* position of the sleep named by argName: at index while its timer runs,
\* before index once the loop went on
SleepPosition == IF pc = "await" THEN index ELSE index - 1

TimersAt(p) == {k \in 1..Len(sleeps) : sleeps[k].index = p}

SleepSkipped ==
  /\ pc # "await"
  /\ errorWhenRunning = NoError
  /\ index >= 1
  /\ args[index] = Arg(argName, argValue)
  /\ TimersAt(index - 1) = {}
  /\ outputPath = LastOutput(args, index - 1)

SleepTimed ==
  /\ errorWhenRunning = NoError
  /\ args[SleepPosition + 1] = Arg(argName, argValue)
  /\ Cardinality(TimersAt(SleepPosition)) = 1
  /\ \A k \in TimersAt(SleepPosition) : sleeps[k].ms = argValue.n
  /\ outputPath = LastOutput(args, SleepPosition)

C11_SleepAbsentOrNumeric ==
  (Started /\ argName = "sleep") =>
    /\ argValue = Undef => SleepSkipped
    /\ TypeOf(argValue) = "number" => SleepTimed

(***************************************************************************)
(* C11 amended: a sleep without a value, or with the number 0, starts no   *)
(* timer, raises no error, leaves the output path alone and lets the loop  *)
(* go on; a sleep with a number other than 0 starts one timer of that      *)
(* length and then lets the loop go on.                                    *)
(***************************************************************************)
C11_SleepAbsentOrNonZero ==
  (Started /\ argName = "sleep") =>
    /\ argValue = Undef => SleepSkipped
    /\ (TypeOf(argValue) = "number" /\ argValue.n = 0) => SleepSkipped
    /\ (TypeOf(argValue) = "number" /\ argValue.n # 0) => SleepTimed

C11_Witness ==
  /\ Completed
  /\ argName = "sleep"
  /\ argValue = Undef
  /\ Len(sleeps) = 1
  /\ index = 3

(***************************************************************************)
(* C12: actionStarted is false until the loop takes its first action       *)
(* argument (action, assert, query-output, query or sleep, whatever its    *)
(* value), true from then on, and no step sets it back.                    *)
(***************************************************************************)
\* number of arguments the loop has taken
Taken ==
  IF pc = "await" \/ (Ended /\ errorWhenRunning # NoError)
  THEN index + 1
  ELSE index

C12_PhaseMonotonic ==
  /\ [](Started =>
         (actionStarted <=>
            \E q \in 1..Taken :
              args[q].name \in
                {"action", "assert", "query-output", "query", "sleep"}))
  /\ [][actionStarted => actionStarted']_vars

C12_Witness ==
  /\ Completed
  /\ actionStarted
  /\ index = 3
  /\ args[2].name = "headed"
  /\ args[3] = Arg("sleep", Undef)

(***************************************************************************)
(* Vocabulary of the notes of the loop.                                    *)
(***************************************************************************)
\* the notes issued since the loop was entered
LoopNotes ==
  SubSeq(out, Len(StartupNotes(args)) + Len(BootstrapNotes(args)) + 1,
         Len(out))

\* where the progress notes are among the notes
SpinPositions(notes) == {k \in 1..Len(notes) : notes[k].kind = "spin"}

NthSpin(spins, j) ==
  CHOOSE k \in spins : Cardinality({m \in spins : m <= k}) = j

\* the notes between the progress note of argument j and the next one
NotesOf(notes, spins, j) ==
  SubSeq(notes, NthSpin(spins, j) + 1,
         IF j < Cardinality(spins)
         THEN NthSpin(spins, j + 1) - 1
         ELSE Len(notes))

ProgressNote(j) == updateSpin(args[j].name, JsString(args[j].value))

CompletionNote(j) == printStep(args[j].name, JsString(args[j].value))

AnswerNotes(j) ==
  {<<CompletionNote(j), printStep("answer", v)>> : v \in QueryValues}

FailureOf(j) ==
  <<printStep(args[j].name \o " - Failed", JsString(args[j].value)),
    [kind |-> "print", step |-> stepString("Error", Str(1)),
     message |-> errorWhenRunning]>>

\* argument j is the one whose dispatch failed
FailedAt(j) == Failed /\ j = index + 1

\* argument j is the one whose call or timer is in flight
InFlightAt(j) == pc = "await" /\ j = index + 1

\* every argument taken has its progress note, in order, before its notes
ProgressFirst(notes, spins) ==
  /\ Cardinality(spins) = Taken
  /\ notes # <<>> => notes[1].kind = "spin"
  /\ \A j \in 1..Taken : notes[NthSpin(spins, j)] = ProgressNote(j)

(***************************************************************************)
(* C13 as claimed: every argument taken has its progress note first; a     *)
(* dispatch that succeeds has one completion note, a query also the value  *)
(* fetched; a dispatch that fails has the failure notes and no completion  *)
(* note.                                                                   *)
(***************************************************************************)
C13_EveryDispatchReported ==
  Started =>
    LET notes == LoopNotes
        spins == SpinPositions(notes)
    IN
    /\ ProgressFirst(notes, spins)
    /\ \A j \in 1..Taken :
         NotesOf(notes, spins, j) \in
           IF InFlightAt(j) THEN {<<>>}
           ELSE IF FailedAt(j) THEN {FailureOf(j)}
           ELSE IF args[j].name = "query" THEN AnswerNotes(j)
           ELSE {<<CompletionNote(j)>>}

(***************************************************************************)
(* C13 amended: every argument taken has its progress note first; a        *)
(* successful action, assert, query-output, query, or sleep with a number  *)
(* other than 0, has one completion note, a query also the value fetched;  *)
(* a preference argument and a sleep without a value (or with a falsy one) *)
(* have no completion note; a dispatch that fails has the failure notes    *)
(* with the name, the value and the message of the error, and no           *)
(* completion note, except a query whose file could not be written, which  *)
(* has its completion note and value before the failure notes.             *)
(***************************************************************************)
C13_ReportingContract ==
  Started =>
    LET notes == LoopNotes
        spins == SpinPositions(notes)
    IN
    /\ ProgressFirst(notes, spins)
    /\ \A j \in 1..Taken :
         NotesOf(notes, spins, j) \in
           IF InFlightAt(j) THEN {<<>>}
           ELSE IF FailedAt(j) THEN
             IF errorWhenRunning = WriteMessage
             THEN {n \o FailureOf(j) : n \in AnswerNotes(j)}
             ELSE {FailureOf(j)}
           ELSE IF args[j].name = "query" THEN AnswerNotes(j)
           ELSE IF args[j].name \in {"action", "assert", "query-output"}
             THEN {<<CompletionNote(j)>>}
           ELSE IF args[j].name = "sleep" /\ Truthy(args[j].value)
             THEN {<<CompletionNote(j)>>}
           ELSE {<<>>}

C13_Witness ==
  /\ pc = "exited"
  /\ errorWhenRunning = AgentMessage
  /\ Len(calls) = 2
  /\ calls[1].name = "query"
  /\ Len(LoopNotes) = 7

(***************************************************************************)
(* C14: after a failure argName and argValue are the name and value of the *)
(* argument at index, the argument whose dispatch failed; the last two     *)
(* notes name that argument and give the message of the error caught; the  *)
(* message is the one of what failed: the order check, the assertion on    *)
(* the value, or else the agent's (or the file write's) own.               *)
(***************************************************************************)
\* the message of the check that argument j fails before any call, if any
CheckMessage(j) ==
  LET n == args[j].name
      v == args[j].value
      before == {args[q].name : q \in 1..(j - 1)}
  IN IF n \in preferenceArgs
       THEN IF before \cap actionArgs # {}
            THEN "You cannot put --" \o n
                   \o " here. Please change the order of the arguments."
            ELSE NoError
     ELSE IF n = "sleep"
       THEN IF Truthy(v) /\ TypeOf(v) # "number"
            THEN "sleep must be a number" ELSE NoError
     ELSE IF ~Truthy(v) THEN "missing " \o n
     ELSE IF TypeOf(v) # "string" THEN n \o " must be a string"
     ELSE NoError

C14_FailingArgumentReported ==
  Failed =>
    /\ index < Len(args)
    /\ args[index + 1] = Arg(argName, argValue)
    /\ \A j \in 1..index : CheckMessage(j) = NoError
    /\ IF CheckMessage(index + 1) # NoError
       THEN errorWhenRunning = CheckMessage(index + 1)
       ELSE /\ IsAgentName(argName)
            /\ errorWhenRunning \in {AgentMessage, WriteMessage}
            /\ errorWhenRunning = WriteMessage =>
                 (argName = "query" /\ Truthy(outputPath))
    /\ Len(out) >= 2
    /\ out[Len(out) - 1] =
         printStep(argName \o " - Failed", JsString(argValue))
    /\ out[Len(out)].step.name = "Error"
    /\ out[Len(out)].message = errorWhenRunning

C14_Witness ==
  /\ pc = "exited"
  /\ errorWhenRunning = AgentMessage
  /\ argName = "assert"
  /\ index = 2
  /\ Len(args) = 4

(***************************************************************************)
(* C15: an action, assert, query or query-output whose value is missing,   *)
(* empty or not a string fails at that argument before any effect: no      *)
(* agent call, no file, and the output path as it was.                     *)
(***************************************************************************)
C15_BadValueFailsBeforeEffect ==
  (/\ Started
   /\ argName \in {"action", "assert", "query", "query-output"}
   /\ (~Truthy(argValue) \/ TypeOf(argValue) # "string")) =>
    /\ Failed
    /\ args[index + 1] = Arg(argName, argValue)
    /\ errorWhenRunning =
         IF ~Truthy(argValue) THEN "missing " \o argName
         ELSE argName \o " must be a string"
    /\ \A k \in 1..Len(calls) : calls[k].index < index
    /\ \A k \in 1..Len(writes) : writes[k].index < index
    /\ outputPath = LastOutput(args, index)
    /\ pending = {}

C15_Witness ==
  /\ Failed
  /\ argName = "query-output"
  /\ argValue = Bool(1)
  /\ outputPath = Str(1)
  /\ writes # <<>>

(***************************************************************************)
(* C16: a query-output with a string stores it as the output path, makes   *)
(* no agent call and writes no file; a query that succeeds writes to the   *)
(* path of the last query-output before it that is still pending, that is, *)
(* not yet used by a query that wrote, and writes nothing when no path is  *)
(* pending.                                                                *)
(***************************************************************************)
\* the path pending after the first k arguments when each query that finds
\* a path pending uses it up
RECURSIVE PendingAfter(_, _)
PendingAfter(a, k) ==
  IF k = 0 THEN Undef
  ELSE IF a[k].name = "query-output" THEN a[k].value
  ELSE IF a[k].name = "query" THEN Undef
  ELSE PendingAfter(a, k - 1)

WritesAt(p) == {k \in 1..Len(writes) : writes[k].index = p}

C16_WritesToPendingPath ==
  Started =>
    /\ \A j \in 1..index :
         args[j].name = "query-output" =>
           /\ WritesAt(j - 1) = {}
           /\ \A k \in 1..Len(calls) : calls[k].index # j - 1
    /\ (pc = "loop" /\ index >= 1 /\ args[index].name = "query-output") =>
         outputPath = args[index].value
    /\ \A k \in 1..Len(writes) :
         /\ args[writes[k].index + 1].name = "query"
         /\ Truthy(PendingAfter(args, writes[k].index))
         /\ writes[k].path = PendingAfter(args, writes[k].index)
    /\ \A j \in 1..index :
         args[j].name = "query" =>
           Cardinality(WritesAt(j - 1)) =
             IF Truthy(PendingAfter(args, j - 1)) THEN 1 ELSE 0

(***************************************************************************)
(* C17: once the start-up has passed, each of width, height and            *)
(* deviceScaleFactor is the value of its argument when that value is a     *)
(* number and else 1280, 1280 and 1; a value that is not a number does     *)
(* not make the start-up fail; and no later step changes viewportConfig.   *)
(***************************************************************************)
NumberGiven(a, name) ==
  {a[i].value.n : i \in {i \in 1..Len(a) :
                           a[i].name = name /\ TypeOf(a[i].value) = "number"}}

Preferred(a, name, default) ==
  IF NumberGiven(a, name) = {} THEN default
  ELSE CHOOSE n \in NumberGiven(a, name) : TRUE

C17_ViewportDerivedOnce ==
  /\ [](pc \in {"boot", "crashed", "loop", "await", "close", "exit", "exited"}
          => /\ viewportConfig.width =
                  Preferred(args, "viewport-width", 1280)
             /\ viewportConfig.height =
                  Preferred(args, "viewport-height", 1280)
             /\ viewportConfig.deviceScaleFactor =
                  Preferred(args, "viewport-scale", 1))
  /\ [](WellFormed(args) /\ pc # "start" => pc # "rejected")
  /\ [][pc # "start" => viewportConfig' = viewportConfig]_vars

C17_Witness ==
  /\ pc = "exited"
  /\ Len(args) = 3
  /\ args[2] = Arg("viewport-width", Str(1))
  /\ args[3] = Arg("viewport-height", Num(2))
  /\ viewportConfig = [width |-> 1280, height |-> 2, deviceScaleFactor |-> 1]

(***************************************************************************)
(* C18: while actionStarted is false, the step that takes a preference     *)
(* argument makes no agent call, starts no timer, writes no file, leaves   *)
(* actionStarted and the output path alone, raises no error and moves to   *)
(* the next argument.                                                      *)
(***************************************************************************)
C18_PreferenceStepHasNoEffect ==
  [][(/\ pc = "loop"
      /\ index < Len(args)
      /\ ~actionStarted
      /\ args[index + 1].name \in
           {"url", "headed", "viewport-width", "viewport-height",
            "viewport-scale", "user-agent"}) =>
       /\ pc' = "loop"
       /\ index' = index + 1
       /\ errorWhenRunning' = NoError
       /\ actionStarted' = FALSE
       /\ outputPath' = outputPath
       /\ calls' = calls
       /\ sleeps' = sleeps
       /\ writes' = writes
       /\ pending' = {}]_vars

C18_Witness ==
  /\ pc = "loop"
  /\ index = 3
  /\ ~actionStarted
  /\ errorWhenRunning = NoError
  /\ args[1].name = "headed"
  /\ args[3] = Arg("viewport-width", Str(1))

(***************************************************************************)
(* C19: when every awaited call and timer settles, the loop, once entered, *)
(* ends, and the process exits; the loop ends in one way and stays ended;  *)
(* index never goes back and grows by one with each step that goes on to   *)
(* the next argument, a skipped sleep included; and the loop ends without  *)
(* an error exactly when index has reached the end of the list.            *)
(***************************************************************************)
C19_LoopTerminates ==
  /\ (pc = "loop") ~> Ended
  /\ Ended ~> (pc = "exited")
  /\ [](Ended => (errorWhenRunning = NoError <=> index = Len(args)))
  /\ [][/\ Started => index' >= index
        /\ (pc \in {"loop", "await"} /\ pc' = "loop") => index' = index + 1
        /\ (pc \in {"loop", "await"} /\ pc' \notin {"loop", "await"}) =>
             (pc' = "close" /\ index' = index)
        /\ (pc = "loop" /\ pc' = "await") => index' = index
        /\ Ended => (Ended' /\ errorWhenRunning' = errorWhenRunning)]_vars

C19_Witness ==
  /\ pc = "exited"
  /\ Completed
  /\ index = 4
  /\ Len(sleeps) = 1
  /\ Len(calls) = 1
  /\ args[3] = Arg("sleep", Undef)

(***************************************************************************)
(* C20: once the loop is entered the browser is open until the loop has    *)
(* ended, is closed once, before process.exit, whether or not an error was *)
(* caught, and no agent call is made after it; a bootstrap that fails      *)
(* leads neither to browser.close() nor to process.exit.                   *)
(***************************************************************************)
C20_BrowserClosedOnce ==
  /\ [](/\ closes <= 1
        /\ pc \in {"loop", "await", "close"} =>
             (browser = "open" /\ closes = 0 /\ exitCode = {})
        /\ pc \in {"exit", "exited"} =>
             (browser = "closed" /\ closes = 1 /\ pending = {})
        /\ pc = "exit" => exitCode = {}
        /\ pc = "crashed" =>
             /\ browser \in {"none", "open"}
             /\ closes = 0
             /\ exitCode = {}
             /\ errorWhenRunning = NoError)
  /\ [][/\ closes' # closes => (pc = "close" /\ pc' = "exit")
        /\ browser = "closed" => (browser' = "closed" /\ calls' = calls)
        /\ pc = "crashed" => pc' = "crashed"]_vars

C20_Witness ==
  /\ pc = "exited"
  /\ closes = 1
  /\ browser = "closed"
  /\ errorWhenRunning = WriteMessage
  /\ Len(calls) = 2

====
